---- MODULE Spec2Model ----
(***************************************************************************)
(* Client-side photo ingestion of TripVault: AlbumPage.onPickFolder and    *)
(* the backend operations it calls (media_items lookup / insert, the       *)
(* reserve_quota RPC, the previews blob store, auth.getUser).              *)
(*                                                                         *)
(* Every `await` of onPickFolder is a point where another page (another    *)
(* tab or device of the same principal) may run, so each action below is   *)
(* one await-to-await segment of the handler together with the backend     *)
(* call that the segment waits for.                                        *)
(***************************************************************************)
EXTENDS Integers, Sequences, FiniteSets

VARIABLES
  used_bytes,   \* QuotaAccount.used_bytes of the principal (backend)
  media_items,  \* catalog: <<album_id, sha256>> -> number of rows (backend)
  previews,     \* blob store: set of <<album_id, sha256>> paths (backend)
  albumId,      \* per page: the album of the route
  album,        \* per page: TRUE once the album row has been loaded
  myRole,       \* per page: "read" | "write"
  msg,          \* per page: the message shown ("null" when none)
  busy,         \* per page: the busy flag
  prog,         \* per page: [totalFiles, doneFiles, totalBytes, doneBytes]
  images,       \* per page: the image files of the run in progress
  idx,          \* per page: position of the for-loop in images
  doneBytes,    \* per page: loop-local counter
  doneFiles,    \* per page: loop-local counter
  pc,           \* per page: the await the handler is suspended at
  outcome,      \* per page: terminal outcome of each item of the current run
  runs,         \* per page: number of runs started
  ingested,     \* history: number of image files handed to runs so far
  reservations, \* history: <<delta, granted>> -> number of reserve_quota calls
  captured_at,  \* per page: loop-local capture timestamp ("null" | "iso")
  row_captured_at, \* catalog: <<album_id, sha256>> -> captured_at of its row
  bmp,          \* renderer: [width, height] of the decoded bitmap
  maxSide,      \* renderer: the maxSide argument of makePreviewBlob
  canvas,       \* renderer: [width, height] given to the canvas
  renderer,     \* renderer: the function that sized the canvas, or "none"
  closed,       \* per page: TRUE once the page has been closed
  albums,       \* titles that have a row in the albums table (backend)
  album_members, \* rows of album_members as <<album_id, user_id>> (backend)
  members,      \* per page: the members list shown (user ids)
  profileMsg,   \* the message of the profile page ("null" when none)
  scanRunning,  \* local scan: the scan is in progress
  scanStats,    \* local scan: [totalFiles, doneFiles, totalBytes, doneBytes,
                \*              originalBytes, previewBytes]
  scanProgress, \* local scan: the percentage shown
  scanPhotos,   \* local scan: the photos of the scan in progress
  scanIdx,      \* local scan: position of the for-loop in scanPhotos
  alerted,      \* local scan: text of the last alert ("null" when none)
  localAlbum,   \* local scan: [originalBytes, previewBytes, itemsScanned]
  quotaBytes,   \* local scan: the quota chosen in the select
  picked,       \* per page: e.target.files of the latest pick, where recorded
  autoPicked    \* per page: the ?pick=1 timer has clicked the file input

vars == <<used_bytes, media_items, previews, albumId, album, myRole, msg, busy,
          prog, images, idx, doneBytes, doneFiles, pc, outcome, runs,
          ingested, reservations, captured_at, row_captured_at,
          bmp, maxSide, canvas, renderer, closed,
          albums, album_members, members, profileMsg,
          scanRunning, scanStats, scanProgress, scanPhotos, scanIdx, alerted,
          localAlbum, quotaBytes, picked, autoPicked>>

local == <<scanRunning, scanStats, scanProgress, scanPhotos, scanIdx, alerted,
           localAlbum, quotaBytes>>

admin == <<albums, album_members, members, profileMsg>>

render == <<bmp, maxSide, canvas, renderer>>

backend == <<used_bytes, media_items, previews, row_captured_at>>

----------------------------------------------------------------------------
(* Bounds of the model *)

LimitBytes == 3      \* QuotaAccount.limit_bytes
MaxIngest  == 2      \* image files handed to runs, over all pages and runs

Sessions == {"s1", "s2"}
Albums   == {"x", "y"}
Role     == {"read", "write"}

(* Files a folder may hold.  type is the MIME type split at the slash. *)
(* What exifr.parse does with a file: it throws, resolves to undefined, or
   resolves to an object whose capture tags are absent, a text, a Date or
   an invalid Date. *)
Tag == {"absent", "text", "date", "invalidDate"}

ExifResults ==
  [parse : {"throws", "undefined", "object"},
   DateTimeOriginal : Tag, CreateDate : Tag, ModifyDate : Tag]

exifOf(p, o, c, m) ==
  [parse |-> p, DateTimeOriginal |-> o, CreateDate |-> c, ModifyDate |-> m]

fileA == [sha |-> "a", size |-> 3, type |-> <<"image", "jpeg">>, ext |-> "jpg",
          exif |-> exifOf("object", "date", "absent", "date")]
fileB == [sha |-> "b", size |-> 5, type |-> <<"", "">>, ext |-> "png",
          exif |-> exifOf("throws", "absent", "absent", "absent")]
fileE == [sha |-> "e", size |-> 0, type |-> <<"image", "png">>, ext |-> "png",
          exif |-> exifOf("undefined", "absent", "absent", "absent")]
fileN == [sha |-> "n", size |-> 1, type |-> <<"text", "plain">>, ext |-> "txt",
          exif |-> exifOf("undefined", "absent", "absent", "absent")]
fileL == [sha |-> "l", size |-> 9, type |-> <<"image", "jpeg">>, ext |-> "jpeg",
          exif |-> exifOf("object", "text", "date", "absent")]

Files == {fileA, fileB, fileE, fileN, fileL}

Shas == {f.sha : f \in Files}

(* Byte size of the 640px JPEG rendition of a content.  The rendition of
   "l" is larger than the whole quota. *)
PreviewSize(sha) ==
  IF sha = "a" THEN 2 ELSE IF sha = "l" THEN LimitBytes + 1 ELSE 1

Deltas == {PreviewSize(x) : x \in Shas}

(* Largest byte count a reservation can be asked for. *)
MaxDelta == CHOOSE m \in {f.size : f \in Files} \cup Deltas :
              \A n \in {f.size : f \in Files} \cup Deltas : n <= m

(* createImageBitmap rejects a file that holds no image data. *)
Decodable(f) == f.size > 0

RECURSIVE SeqsUpTo(_, _)
SeqsUpTo(S, n) ==
  IF n = 0 THEN {<<>>}
  ELSE LET shorter == SeqsUpTo(S, n - 1)
       IN  shorter \cup {Append(q, x) : q \in {r \in shorter : Len(r) = n - 1}, x \in S}

Selections == SeqsUpTo(Files, MaxIngest)

----------------------------------------------------------------------------
(* Pure helpers of the page *)

KnownExt == {"jpg", "jpeg", "png", "webp", "tif", "tiff", "heic", "heif"}

(* The test by the declared type alone. *)
isImageFile_typeOnly(f) == f.type[1] = "image"

isImageFile(f) == f.type[1] = "image" \/ f.ext \in KnownExt

RECURSIVE filter(_)
filter(fs) ==
  IF fs = <<>> THEN <<>>
  ELSE IF isImageFile(Head(fs)) THEN <<Head(fs)>> \o filter(Tail(fs))
       ELSE filter(Tail(fs))

RECURSIVE sumSize(_)
sumSize(fs) == IF fs = <<>> THEN 0 ELSE Head(fs).size + sumSize(Tail(fs))

Min(a, b) == IF a <= b THEN a ELSE b

(* Math.round of the non-negative quotient n / d: halves round up. *)
MathRound(n, d) == (2 * n + d) \div (2 * d)

(* pct with Math.floor in place of Math.round. *)
pct_floor(p) ==
  IF p.totalBytes = 0 THEN 0
  ELSE Min(100, (100 * p.doneBytes) \div p.totalBytes)

pct(p) ==
  IF p.totalBytes = 0 THEN 0
  ELSE Min(100, MathRound(100 * p.doneBytes, p.totalBytes))

(* dt = DateTimeOriginal || CreateDate || ModifyDate of a parsed object:
   the first tag that is present. *)
firstTag(ex) ==
  IF ex.DateTimeOriginal # "absent" THEN ex.DateTimeOriginal
  ELSE IF ex.CreateDate # "absent" THEN ex.CreateDate
  ELSE ex.ModifyDate

(* captured_at with every present tag taken for a date. *)
capturedAt_noTypeCheck(ex) ==
  IF ex.parse # "object" THEN "null"
  ELSE IF firstTag(ex) # "absent" THEN "iso" ELSE "null"

(* captured_at after the try/catch around exifr.parse: an ISO string only
   when dt is a Date whose toISOString() does not throw. *)
capturedAt(ex) ==
  IF ex.parse # "object" THEN "null"
  ELSE IF firstTag(ex) = "date" THEN "iso" ELSE "null"

Max(a, b) == IF a >= b THEN a ELSE b

(* Math.round of a quotient computed in two floating-point steps
   (x * (n / d)): an exact half may come out on either side. *)
MathRoundFloat(n, d) ==
  IF (2 * n) % (2 * d) = d THEN {n \div d, n \div d + 1} ELSE {MathRound(n, d)}

(* makePreviewBlob with the scale not capped at 1. *)
previewDims_upscaling(width, height, m) ==
  LET l == Max(width, height)
  IN  {[width |-> Max(1, w), height |-> Max(1, h)] :
         w \in MathRoundFloat(width * m, l), h \in MathRoundFloat(height * m, l)}

(* Canvas size of makePreviewBlob: scale = min(1, maxSide / max(w, h)),
   each side max(1, round(side * scale)). *)
previewDims(width, height, m) ==
  LET l == Max(width, height)
  IN  IF m >= l
      THEN {[width |-> Max(1, width), height |-> Max(1, height)]}
      ELSE {[width |-> Max(1, w), height |-> Max(1, h)] :
              w \in MathRoundFloat(width * m, l), h \in MathRoundFloat(height * m, l)}

(* maxSide of makePhotoPreviewBlob *)
photoMaxSide == 1280

(* Canvas size of makePhotoPreviewBlob. *)
photoPreviewDims(width, height) ==
  IF width > height /\ width > photoMaxSide
  THEN [width |-> photoMaxSide, height |-> MathRound(height * photoMaxSide, width)]
  ELSE IF height >= width /\ height > photoMaxSide
       THEN [width |-> MathRound(width * photoMaxSide, height), height |-> photoMaxSide]
       ELSE [width |-> width, height |-> height]

----------------------------------------------------------------------------
(* Backend operations *)

(* Variants of the admission test with a defect, used to show that the
   quota properties depend on it. *)
reserve_quota_ok_unchecked(used, delta) == TRUE

reserve_quota_ok_stale(used, delta) == used <= LimitBytes

(* reserve_quota(delta_bytes): atomic check and increment. *)
reserve_quota_ok(used, delta) == used + delta <= LimitBytes

reserve_quota(used, delta) ==
  IF reserve_quota_ok(used, delta) THEN used + delta ELSE used

(* media_items has a unique constraint on (album_id, sha256). *)
insert_conflict(items, key) == items[key] >= 1

(* .maybeSingle(): data is a row only when exactly one row matches. *)
maybeSingle(items, key) == items[key] = 1

(* The local folder scan of the first version of the application.  Byte
   counts are in the unit of the file sizes above. *)
DEFAULT_QUOTA_BYTES == 10

QuotaOptions == {4, DEFAULT_QUOTA_BYTES}

ZeroStats ==
  [totalFiles |-> 0, doneFiles |-> 0, totalBytes |-> 0, doneBytes |-> 0,
   originalBytes |-> 0, previewBytes |-> 0]

(* Byte size of the 1280px JPEG rendition of a content. *)
PhotoPreviewSize(sha) == PreviewSize(sha) + 1

PhotoExt == {"jpg", "jpeg", "png", "webp"}

isPhoto(f) == f.type[1] = "image" \/ f.ext \in PhotoExt

RECURSIVE filterPhotos(_)
filterPhotos(fs) ==
  IF fs = <<>> THEN <<>>
  ELSE IF isPhoto(Head(fs)) THEN <<Head(fs)>> \o filterPhotos(Tail(fs))
       ELSE filterPhotos(Tail(fs))

----------------------------------------------------------------------------
(* The pages are fresh mounts of AlbumPage.  Which album is called "x" is
   immaterial, so the first page is put on "x" and the other on either. *)
Init ==
  /\ used_bytes = 0
  /\ media_items = [k \in Albums \X Shas |-> 0]
  /\ previews = {}
  /\ albumId \in {f \in [Sessions -> Albums] : f["s1"] = "x"}
  /\ album = [s \in Sessions |-> FALSE]
  /\ myRole = [s \in Sessions |-> "read"]
  /\ msg = [s \in Sessions |-> "null"]
  /\ busy = [s \in Sessions |-> FALSE]
  /\ prog = [s \in Sessions |->
               [totalFiles |-> 0, doneFiles |-> 0, totalBytes |-> 0, doneBytes |-> 0]]
  /\ images = [s \in Sessions |-> <<>>]
  /\ idx = [s \in Sessions |-> 1]
  /\ doneBytes = [s \in Sessions |-> 0]
  /\ doneFiles = [s \in Sessions |-> 0]
  /\ pc = [s \in Sessions |-> "idle"]
  /\ outcome = [s \in Sessions |-> <<>>]
  /\ runs = [s \in Sessions |-> 0]
  /\ ingested = 0
  /\ reservations = [a \in (0..MaxDelta) \X BOOLEAN |-> 0]
  /\ captured_at = [s \in Sessions |-> "null"]
  /\ row_captured_at = [k \in Albums \X Shas |-> "none"]
  /\ bmp = [width |-> 1, height |-> 1]
  /\ maxSide = 640
  /\ canvas = [width |-> 0, height |-> 0]
  /\ renderer = "none"
  /\ closed = [s \in Sessions |-> FALSE]
  /\ albums = {}
  /\ album_members = {}
  /\ members = [s \in Sessions |-> {}]
  /\ profileMsg = "null"
  /\ scanRunning = FALSE
  /\ scanStats = ZeroStats
  /\ scanProgress = 0
  /\ scanPhotos = <<>>
  /\ scanIdx = 1
  /\ alerted = "null"
  /\ localAlbum = [originalBytes |-> 0, previewBytes |-> 0, itemsScanned |-> 0]
  /\ picked = [s \in Sessions |-> <<>>]
  /\ autoPicked = [s \in Sessions |-> FALSE]
  /\ quotaBytes = DEFAULT_QUOTA_BYTES

file(s) == images[s][idx[s]]
key(s)  == <<albumId[s], file(s).sha>>

(* The dedup lookup without the album_id filter. *)
exists_anyAlbum(s) ==
  \E a \in Albums : maybeSingle(media_items, <<a, file(s).sha>>)

(* exists.data?.id of the dedup lookup, when the query itself succeeds. *)
exists(s) == maybeSingle(media_items, key(s))

(* The user ids of the album_members rows of an album. *)
membersOf(rows, a) == {r[2] : r \in {q \in rows : q[1] = a}}

(* Mount effect: load the album row, resolve the role, load the members. *)
LoadAlbum(s) ==
  /\ ~closed[s]
  /\ ~album[s]
  /\ \E r \in Role :
       /\ album' = [album EXCEPT ![s] = TRUE]
       /\ myRole' = [myRole EXCEPT ![s] = r]
  /\ members' = [members EXCEPT ![s] = membersOf(album_members, albumId[s])]
  /\ UNCHANGED <<backend, albumId, render, local, picked, autoPicked, closed, albums, album_members,
                 profileMsg, msg, busy, prog, images, idx, doneBytes,
                 doneFiles, pc, outcome, runs, ingested, reservations,
                 captured_at>>

(* The loop head: either the next item starts or the loop is over and the
   finally block clears busy. *)
loopHead(s, i, imgs) ==
  IF i <= Len(imgs)
  THEN /\ pc' = [pc EXCEPT ![s] = "hash"]
       /\ busy' = [busy EXCEPT ![s] = TRUE]
  ELSE /\ pc' = [pc EXCEPT ![s] = "idle"]
       /\ busy' = [busy EXCEPT ![s] = FALSE]

(* The selections the handler tells apart before its first await. *)
NonEmptySelections == {fs \in Selections : fs # <<>>}

ImagelessSelections == {fs \in NonEmptySelections : filter(fs) = <<>>}

ImageLists == {filter(fs) : fs \in Selections} \ {<<>>}

(* An empty selection reported as a failed upload. *)
noFiles_asError(s) ==
  /\ msg' = [msg EXCEPT ![s] = "Upload failed"]
  /\ UNCHANGED <<prog, images, idx, doneBytes, doneFiles, pc, busy,
                 outcome, runs, ingested>>

(* setMsg(null), then `if (!files.length) return` *)
noFiles(s) ==
  /\ msg' = [msg EXCEPT ![s] = "null"]
  /\ UNCHANGED <<prog, images, idx, doneBytes, doneFiles, pc, busy,
                 outcome, runs, ingested>>

(* onPickFolder up to its first await, for e.target.files = files. *)
pick(s, files) ==
  /\ ~closed[s]
  /\ pc[s] = "idle"
  /\ ~busy[s]
  /\ album[s]
  /\ IF files = <<>>
     THEN noFiles(s)
     ELSE IF myRole[s] # "write"
     THEN /\ msg' = [msg EXCEPT ![s] = "You only have read access."]
          /\ UNCHANGED <<prog, images, idx, doneBytes, doneFiles, pc, busy,
                         outcome, runs, ingested>>
     ELSE \E imgs \in {filter(files)} :
          IF imgs = <<>>
          THEN /\ msg' = [msg EXCEPT ![s] = "No images found in selected folder."]
               /\ UNCHANGED <<prog, images, idx, doneBytes, doneFiles, pc, busy,
                              outcome, runs, ingested>>
          ELSE /\ msg' = [msg EXCEPT ![s] = "null"]
               /\ prog' = [prog EXCEPT ![s] =
                             [totalFiles |-> Len(imgs), doneFiles |-> 0,
                              totalBytes |-> sumSize(imgs), doneBytes |-> 0]]
               /\ images' = [images EXCEPT ![s] = imgs]
               /\ idx' = [idx EXCEPT ![s] = 1]
               /\ doneBytes' = [doneBytes EXCEPT ![s] = 0]
               /\ doneFiles' = [doneFiles EXCEPT ![s] = 0]
               /\ outcome' = [outcome EXCEPT ![s] = <<>>]
               /\ runs' = [runs EXCEPT ![s] = @ + 1]
               /\ ingested' = ingested + Len(imgs)
               /\ loopHead(s, 1, imgs)
  /\ UNCHANGED <<backend, albumId, render, local, closed, admin, album, myRole,
                 reservations, captured_at>>

(* One selection that is not empty, and one of no image. *)
AnySelection == CHOOSE fs \in NonEmptySelections : TRUE

AnyImageless == CHOOSE fs \in ImagelessSelections : TRUE

(* onPickFolder on any selection of the input.  The handler depends on the
   selection only through its emptiness and, under the write role, its
   images: one selection of each kind is taken.  No more than MaxIngest
   items are ingested in a behaviour. *)
onPickFolder(s) ==
  /\ pc[s] = "idle"
  /\ \/ pick(s, <<>>)
     \/ myRole[s] # "write" /\ pick(s, AnySelection)
     \/ myRole[s] = "write" /\ pick(s, AnyImageless)
     \/ /\ myRole[s] = "write"
        /\ \E imgs \in ImageLists :
             ingested + Len(imgs) <= MaxIngest /\ pick(s, imgs)
  /\ UNCHANGED <<picked, autoPicked>>

(* A catch with no finally: the exception leaves busy set. *)
throw_staysBusy(s, m) ==
  /\ msg' = [msg EXCEPT ![s] = m]
  /\ pc' = [pc EXCEPT ![s] = "idle"]
  /\ outcome' = [outcome EXCEPT ![s] = Append(@, "Failed")]
  /\ captured_at' = [captured_at EXCEPT ![s] = "null"]
  /\ UNCHANGED <<busy, prog, images, idx, doneBytes, doneFiles>>

(* A throw caught inside the loop body: the message is set and the loop
   goes on with the next item. *)
throw_nextItem(s, m) ==
  /\ msg' = [msg EXCEPT ![s] = m]
  /\ outcome' = [outcome EXCEPT ![s] = Append(@, "Failed")]
  /\ idx' = [idx EXCEPT ![s] = @ + 1]
  /\ loopHead(s, idx[s] + 1, images[s])
  /\ captured_at' = [captured_at EXCEPT ![s] = "null"]
  /\ UNCHANGED <<prog, images, doneBytes, doneFiles>>

(* A throw inside the try block: catch sets the message, finally clears
   busy; the loop is left. *)
throw(s, m) ==
  /\ msg' = [msg EXCEPT ![s] = m]
  /\ busy' = [busy EXCEPT ![s] = FALSE]
  /\ pc' = [pc EXCEPT ![s] = "idle"]
  /\ outcome' = [outcome EXCEPT ![s] = Append(@, "Failed")]
  /\ captured_at' = [captured_at EXCEPT ![s] = "null"]
  /\ UNCHANGED <<prog, images, idx, doneBytes, doneFiles>>

(* The loop taking the same item again after counting it. *)
countItem_sameItem(s, o) ==
  /\ doneBytes' = [doneBytes EXCEPT ![s] = @ + file(s).size]
  /\ doneFiles' = [doneFiles EXCEPT ![s] = @ + 1]
  /\ prog' = [prog EXCEPT ![s].doneFiles = doneFiles[s] + 1,
                          ![s].doneBytes = doneBytes[s] + file(s).size]
  /\ outcome' = [outcome EXCEPT ![s] = Append(@, o)]
  /\ loopHead(s, idx[s], images[s])
  /\ captured_at' = [captured_at EXCEPT ![s] = "null"]
  /\ UNCHANGED <<images, msg, idx>>

(* The loop moving on without the progress update. *)
countItem_uncounted(s, o) ==
  /\ outcome' = [outcome EXCEPT ![s] = Append(@, o)]
  /\ idx' = [idx EXCEPT ![s] = @ + 1]
  /\ loopHead(s, idx[s] + 1, images[s])
  /\ captured_at' = [captured_at EXCEPT ![s] = "null"]
  /\ UNCHANGED <<images, msg, doneBytes, doneFiles, prog>>

(* The item's bytes counted both when it starts and when it ends. *)
countItem_bytesTwice(s, o) ==
  /\ doneBytes' = [doneBytes EXCEPT ![s] = @ + 2 * file(s).size]
  /\ doneFiles' = [doneFiles EXCEPT ![s] = @ + 1]
  /\ prog' = [prog EXCEPT ![s].doneFiles = doneFiles[s] + 1,
                          ![s].doneBytes = doneBytes[s] + 2 * file(s).size]
  /\ outcome' = [outcome EXCEPT ![s] = Append(@, o)]
  /\ idx' = [idx EXCEPT ![s] = @ + 1]
  /\ loopHead(s, idx[s] + 1, images[s])
  /\ captured_at' = [captured_at EXCEPT ![s] = "null"]
  /\ UNCHANGED <<images, msg>>

(* The item is counted and the loop moves on. *)
countItem(s, o) ==
  /\ doneBytes' = [doneBytes EXCEPT ![s] = @ + file(s).size]
  /\ doneFiles' = [doneFiles EXCEPT ![s] = @ + 1]
  /\ prog' = [prog EXCEPT ![s].doneFiles = doneFiles[s] + 1,
                          ![s].doneBytes = doneBytes[s] + file(s).size]
  /\ outcome' = [outcome EXCEPT ![s] = Append(@, o)]
  /\ idx' = [idx EXCEPT ![s] = @ + 1]
  /\ loopHead(s, idx[s] + 1, images[s])
  /\ captured_at' = [captured_at EXCEPT ![s] = "null"]
  /\ UNCHANGED <<images, msg>>

(* A step that only moves to the next await. *)
goto(s, l) ==
  /\ pc' = [pc EXCEPT ![s] = l]
  /\ UNCHANGED <<msg, busy, prog, images, idx, doneBytes, doneFiles, outcome,
                 captured_at>>

(* file.arrayBuffer() and sha256Hex *)
Hash(s) ==
  /\ ~closed[s]
  /\ pc[s] = "hash"
  /\ \/ goto(s, "lookup")
     \/ throw(s, "HashError")
  /\ UNCHANGED <<backend, albumId, render, local, picked, autoPicked, closed, admin, album, myRole, runs, ingested, reservations>>

(* The lookup with its error thrown. *)
Lookup_failureThrows(s) ==
  /\ ~closed[s]
  /\ pc[s] = "lookup"
  /\ \/ IF exists(s)
        THEN countItem(s, "Skipped")
        ELSE goto(s, "dims")
     \/ throw(s, "LookupError")
  /\ UNCHANGED <<backend, albumId, render, local, picked, autoPicked, closed,
                 admin, album, myRole, runs, ingested, reservations>>

(* media_items lookup by (album_id, sha256) *)
Lookup(s) ==
  /\ ~closed[s]
  /\ pc[s] = "lookup"
  /\ \E failed \in BOOLEAN :
       IF ~failed /\ exists(s)
       THEN countItem(s, "Skipped")
       ELSE goto(s, "dims")
  /\ UNCHANGED <<backend, albumId, render, local, picked, autoPicked, closed, admin, album, myRole, runs, ingested, reservations>>

(* imageDims *)
Dims(s) ==
  /\ ~closed[s]
  /\ pc[s] = "dims"
  /\ \/ Decodable(file(s)) /\ goto(s, "exif")
     \/ throw(s, "DecodeError")
  /\ UNCHANGED <<backend, albumId, render, local, picked, autoPicked, closed, admin, album, myRole, runs, ingested, reservations>>

(* exifr.parse inside its own try/catch: whatever it does, the handler
   goes on to makePreviewBlob. *)
Exif(s) ==
  /\ ~closed[s]
  /\ pc[s] = "exif"
  /\ captured_at' = [captured_at EXCEPT ![s] = capturedAt(file(s).exif)]
  /\ pc' = [pc EXCEPT ![s] = "preview"]
  /\ UNCHANGED <<msg, busy, prog, images, idx, doneBytes, doneFiles, outcome>>
  /\ UNCHANGED <<backend, albumId, render, local, picked, autoPicked, closed, admin, album, myRole, runs, ingested, reservations>>

(* makePreviewBlob *)
Preview(s) ==
  /\ ~closed[s]
  /\ pc[s] = "preview"
  /\ \/ goto(s, "reserve")
     \/ throw(s, "DecodeError")
     \/ throw(s, "Preview encode failed")
  /\ UNCHANGED <<backend, albumId, render, local, picked, autoPicked, closed, admin, album, myRole, runs, ingested, reservations>>

(* The reservation charged with the size of the original file. *)
delta_bytes_fileSize(s) == file(s).size

(* delta_bytes of the reservation: previewBlob.size *)
delta_bytes(s) == PreviewSize(file(s).sha)

(* The reservation with its error ignored: the upload follows a denial. *)
Reserve_uploadAnyway(s) ==
  /\ ~closed[s]
  /\ pc[s] = "reserve"
  /\ LET delta == delta_bytes(s) IN
       /\ used_bytes' = reserve_quota(used_bytes, delta)
       /\ reservations' =
            [reservations EXCEPT ![<<delta, reserve_quota_ok(used_bytes, delta)>>] = @ + 1]
       /\ goto(s, "upload")
  /\ UNCHANGED <<media_items, previews, row_captured_at, albumId, render, local, picked, autoPicked, closed, admin, album,
                 myRole, runs, ingested>>

(* The page deciding by itself, against the quota it holds, with no call. *)
Reserve_decidedLocally(s) ==
  /\ ~closed[s]
  /\ pc[s] = "reserve"
  /\ IF delta_bytes(s) <= quotaBytes
     THEN goto(s, "upload")
     ELSE throw(s, "QuotaExceededError")
  /\ UNCHANGED <<used_bytes, reservations>>
  /\ UNCHANGED <<media_items, previews, row_captured_at, albumId, render, local, picked, autoPicked,
                 closed, admin, album, myRole, runs, ingested>>

(* supabase.rpc("reserve_quota", {delta_bytes: previewBlob.size}) *)
Reserve(s) ==
  /\ ~closed[s]
  /\ pc[s] = "reserve"
  /\ LET delta == delta_bytes(s) IN
     \/ /\ used_bytes' = reserve_quota(used_bytes, delta)
        /\ reservations' =
             [reservations EXCEPT ![<<delta, reserve_quota_ok(used_bytes, delta)>>] = @ + 1]
        /\ IF reserve_quota_ok(used_bytes, delta)
           THEN goto(s, "upload")
           ELSE throw(s, "QuotaExceededError")
     \/ /\ UNCHANGED <<used_bytes, reservations>>
        /\ throw(s, "RpcError")
  /\ UNCHANGED <<media_items, previews, row_captured_at, albumId, render, local, picked, autoPicked, closed, admin, album, myRole,
                 runs, ingested>>

(* storage.from("previews").upload(path, blob, {upsert: true}) *)
Upload(s) ==
  /\ ~closed[s]
  /\ pc[s] = "upload"
  /\ \/ /\ previews' = previews \cup {key(s)}
        /\ goto(s, "getUser")
     \/ /\ previews' = previews
        /\ throw(s, "UploadError")
  /\ UNCHANGED <<used_bytes, media_items, row_captured_at, albumId, render, local, picked, autoPicked, closed, admin, album, myRole,
                 runs, ingested, reservations>>

(* supabase.auth.getUser() *)
GetUser(s) ==
  /\ ~closed[s]
  /\ pc[s] = "getUser"
  /\ \/ goto(s, "insert")
     \/ throw(s, "No user")
  /\ UNCHANGED <<backend, albumId, render, local, picked, autoPicked, closed, admin, album, myRole, runs, ingested, reservations>>

(* media_items insert, then the progress update *)
Insert(s) ==
  /\ ~closed[s]
  /\ pc[s] = "insert"
  /\ \/ IF insert_conflict(media_items, key(s))
        THEN /\ UNCHANGED <<media_items, row_captured_at>>
             /\ throw(s, "CatalogConflict")
        ELSE /\ media_items' = [media_items EXCEPT ![key(s)] = @ + 1]
             /\ row_captured_at' = [row_captured_at EXCEPT ![key(s)] = captured_at[s]]
             /\ countItem(s, "Cataloged")
     \/ /\ UNCHANGED <<media_items, row_captured_at>>
        /\ throw(s, "CatalogError")
  /\ UNCHANGED <<used_bytes, previews, albumId, render, local, picked, autoPicked, closed, admin, album, myRole, runs, ingested, reservations>>

(* The page is closed while a run is in progress (tab closed, document
   unloaded), between the reservation of an item and its catalog insert:
   the handler takes no further step.  Leaving the route inside the
   application only unmounts the component; the handler then runs on as if
   the page were open. *)
Close(s) ==
  /\ ~closed[s]
  /\ busy[s]
  /\ pc[s] \in {"upload", "getUser", "insert"}
  /\ closed' = [closed EXCEPT ![s] = TRUE]
  /\ UNCHANGED <<backend, albumId, render, local, picked, autoPicked, admin, album, myRole, msg, busy, prog,
                 images, idx, doneBytes, doneFiles, pc, outcome, runs, ingested,
                 reservations, captured_at>>

Next ==
  \E s \in Sessions :
    \/ Close(s)
    \/ LoadAlbum(s)
    \/ onPickFolder(s)
    \/ Hash(s)
    \/ Lookup(s)
    \/ Dims(s)
    \/ Exif(s)
    \/ Preview(s)
    \/ Reserve(s)
    \/ Upload(s)
    \/ GetUser(s)
    \/ Insert(s)

Spec == Init /\ [][Next]_vars

----------------------------------------------------------------------------
(* The handlers next to the ingestion: album creation on the profile page,
   sharing and revoking on the album page.  They are taken as one step
   each. *)

AdminIngest == 1     \* image files the page ingests next to these handlers

Titles == {"Goa"}

Users == {"u1", "u2", "u3"}

(* The cap of the members list in shareAdd. *)
MaxShared == 3

(* Album creation that charges the quota account. *)
createAlbum_charging ==
  /\ albums' = albums \cup Titles
  /\ used_bytes' = used_bytes + 1
  /\ profileMsg' = "null"
  /\ UNCHANGED <<media_items, previews, row_captured_at, album_members, members,
                 albumId, render, local, picked, autoPicked, closed, album, myRole, msg, busy, prog, images,
                 idx, doneBytes, doneFiles, pc, outcome, runs, ingested,
                 reservations, captured_at>>

(* ProfilePage.createAlbum: an empty title returns, an insert error is
   shown, otherwise the albums table gets a row with the title. *)
createAlbum ==
  /\ \/ /\ profileMsg' = "null"
        /\ albums' = albums
     \/ /\ profileMsg' = "InsertError"
        /\ albums' = albums
     \/ \E title \in Titles :
          /\ profileMsg' = "null"
          /\ albums' = albums \cup {title}
  /\ UNCHANGED <<backend, album_members, members, albumId, render, local, picked, autoPicked, closed, album,
                 myRole, msg, busy, prog, images, idx, doneBytes, doneFiles, pc,
                 outcome, runs, ingested, reservations, captured_at>>

(* AlbumPage.shareAdd, by the order of its early returns: empty email, not
   the owner, the members list at its cap, no profile for the email, the
   insert refused (an error, an existing row, or the cap enforced by the
   database), the row added and the list refreshed.  isOwner is page state
   that only shareAdd and revoke read; it may be either value. *)
shareAdd(s) ==
  /\ ~closed[s]
  /\ album[s]
  /\ \/ /\ msg' = [msg EXCEPT ![s] = "null"]
        /\ UNCHANGED <<album_members, members>>
     \/ /\ msg' = [msg EXCEPT ![s] = "Only the owner can share."]
        /\ UNCHANGED <<album_members, members>>
     \/ /\ Cardinality(members[s]) >= MaxShared
        /\ msg' = [msg EXCEPT ![s] = "Max 3 shared users allowed for this album."]
        /\ UNCHANGED <<album_members, members>>
     \/ /\ Cardinality(members[s]) < MaxShared
        /\ msg' = [msg EXCEPT ![s] = "profile not found"]
        /\ UNCHANGED <<album_members, members>>
     \/ /\ Cardinality(members[s]) < MaxShared
        /\ msg' = [msg EXCEPT ![s] = "ShareError"]
        /\ UNCHANGED <<album_members, members>>
     \/ /\ Cardinality(members[s]) < MaxShared
        /\ \E email \in Users :
             /\ <<albumId[s], email>> \notin album_members
             /\ Cardinality(membersOf(album_members, albumId[s])) < MaxShared
             /\ msg' = [msg EXCEPT ![s] = "null"]
             /\ album_members' = album_members \cup {<<albumId[s], email>>}
             /\ members' = [members EXCEPT ![s] =
                              membersOf(album_members', albumId[s])]
  /\ UNCHANGED <<backend, albums, profileMsg, albumId, render, local, picked, autoPicked, closed, album,
                 myRole, busy, prog, images, idx, doneBytes, doneFiles, pc,
                 outcome, runs, ingested, reservations, captured_at>>

(* AlbumPage.revoke of a member of the list: not the owner, the delete
   refused, the row deleted and the member taken off the list. *)
revoke(s) ==
  /\ ~closed[s]
  /\ album[s]
  /\ members[s] # {}
  /\ \/ /\ msg' = [msg EXCEPT ![s] = "null"]
        /\ UNCHANGED <<album_members, members>>
     \/ /\ msg' = [msg EXCEPT ![s] = "RevokeError"]
        /\ UNCHANGED <<album_members, members>>
     \/ \E user_id \in members[s] :
          /\ msg' = [msg EXCEPT ![s] = "null"]
          /\ album_members' = album_members \ {<<albumId[s], user_id>>}
          /\ members' = [members EXCEPT ![s] = @ \ {user_id}]
  /\ UNCHANGED <<backend, albums, profileMsg, albumId, render, local, picked, autoPicked, closed, album,
                 myRole, busy, prog, images, idx, doneBytes, doneFiles, pc,
                 outcome, runs, ingested, reservations, captured_at>>

(* One open page on album "x" (the other page is closed before anything
   else happens) next to the profile page. *)
InitAdmin ==
  /\ Init
  /\ albumId = [s \in Sessions |-> "x"]

CloseOther ==
  /\ closed = [s \in Sessions |-> FALSE]
  /\ \A s \in Sessions : ~album[s]
  /\ closed' = [closed EXCEPT !["s2"] = TRUE]
  /\ UNCHANGED <<backend, albumId, render, local, picked, autoPicked, admin, album, myRole, msg, busy, prog,
                 images, idx, doneBytes, doneFiles, pc, outcome, runs, ingested,
                 reservations, captured_at>>

NextAdmin ==
  \/ CloseOther
  \/ /\ closed["s2"]
     /\ \/ Next /\ ingested' <= AdminIngest
        \/ createAlbum
        \/ \E s \in Sessions : shareAdd(s)
        \/ \E s \in Sessions : revoke(s)

SpecAdmin == InitAdmin /\ [][NextAdmin]_vars

----------------------------------------------------------------------------
(* The local folder scan (scanLocalFolderPhotosOnly of the first version of
   the application) next to one album page. *)

MaxScan == 1         \* files in a folder handed to the local scan

ScanPhotoLists == {filterPhotos(fs) : fs \in SeqsUpTo(Files, MaxScan)}

(* The quota select *)
setQuotaBytes ==
  /\ \E q \in QuotaOptions \ {quotaBytes} : quotaBytes' = q
  /\ UNCHANGED <<scanRunning, scanStats, scanProgress, scanPhotos, scanIdx,
                 alerted, localAlbum>>
  /\ UNCHANGED <<backend, albumId, render, closed, admin, album, myRole, msg, busy,
                 picked, autoPicked, prog, images, idx, doneBytes, doneFiles, pc, outcome, runs,
                 ingested, reservations, captured_at>>

(* The end of the loop: the album gets the totals, finally clears
   scanRunning. *)
scanDone(stats, n) ==
  /\ localAlbum' = [originalBytes |-> stats.originalBytes,
                    previewBytes |-> stats.previewBytes, itemsScanned |-> n]
  /\ scanRunning' = FALSE

(* scanLocalFolderPhotosOnly up to the loop: no picker in the browser, the
   picker cancelled, the folder read and filtered, and the comparison of
   the total with the local quota.  Nothing but scanRunning changes while
   the picker and the directory read are awaited, so they are taken in the
   step of the start.  alerted is the alert of the latest call, "null" when
   it has raised none. *)
scanLocalFolderPhotosOnly ==
  /\ ~scanRunning
  /\ scanProgress' = 0
  /\ UNCHANGED quotaBytes
  /\ \/ /\ alerted' = "Folder picking needs Chrome/Edge (File System Access API)."
        /\ scanStats' = ZeroStats
        /\ UNCHANGED <<scanRunning, scanPhotos, scanIdx, localAlbum>>
     \/ /\ scanStats' = ZeroStats
        /\ alerted' = "null"
        /\ UNCHANGED <<scanRunning, scanPhotos, scanIdx, localAlbum>>
     \/ \E photos \in ScanPhotoLists :
          LET totalBytes == sumSize(photos) IN
          IF totalBytes > quotaBytes
          THEN /\ alerted' = "Quota exceeded."
               /\ scanStats' = ZeroStats
               /\ UNCHANGED <<scanRunning, scanPhotos, scanIdx, localAlbum>>
          ELSE /\ scanStats' = [ZeroStats EXCEPT !.totalFiles = Len(photos),
                                                  !.totalBytes = totalBytes]
               /\ scanPhotos' = photos
               /\ scanIdx' = 1
               /\ alerted' = "null"
               /\ IF photos = <<>>
                  THEN scanDone(ZeroStats, 0)
                  ELSE scanRunning' = TRUE /\ localAlbum' = localAlbum
  /\ UNCHANGED <<backend, albumId, render, closed, admin, album, myRole, msg, busy,
                 picked, autoPicked, prog, images, idx, doneBytes, doneFiles, pc, outcome, runs,
                 ingested, reservations, captured_at>>

(* One turn of the scan loop: makePhotoPreviewBlob, then the counters. *)
scanPhoto ==
  /\ scanRunning
  /\ UNCHANGED <<quotaBytes, scanPhotos>>
  /\ LET f == scanPhotos[scanIdx] IN
     IF Decodable(f)
     THEN LET stats ==
                [scanStats EXCEPT
                   !.doneFiles = @ + 1,
                   !.doneBytes = @ + f.size,
                   !.originalBytes = @ + f.size,
                   !.previewBytes = @ + PhotoPreviewSize(f.sha)]
          IN  /\ scanStats' = stats
              /\ scanProgress' =
                   IF stats.totalBytes = 0 THEN 0
                   ELSE MathRound(100 * stats.doneBytes, stats.totalBytes)
              /\ scanIdx' = scanIdx + 1
              /\ alerted' = alerted
              /\ IF scanIdx + 1 > Len(scanPhotos)
                 THEN scanDone(stats, Len(scanPhotos))
                 ELSE scanRunning' = TRUE /\ localAlbum' = localAlbum
     ELSE /\ alerted' = "Scan failed"
          /\ scanRunning' = FALSE
          /\ UNCHANGED <<scanStats, scanProgress, scanIdx, localAlbum>>
  /\ UNCHANGED <<backend, albumId, render, closed, admin, album, myRole, msg, busy,
                 picked, autoPicked, prog, images, idx, doneBytes, doneFiles, pc, outcome, runs,
                 ingested, reservations, captured_at>>

(* No scan has left a trace yet. *)
ScanUnused ==
  /\ ~scanRunning
  /\ scanStats = ZeroStats
  /\ alerted = "null"
  /\ localAlbum.itemsScanned = 0

(* The scan belongs to the first version of the front end and the album
   page to the present one, and the browser tab runs one of the two: the
   album page ingests only where no scan has been made, and the scan runs
   only where the page has ingested nothing. *)
NextLocal ==
  \/ CloseOther
  \/ /\ closed["s2"]
     /\ \/ ScanUnused /\ Next /\ ingested' <= AdminIngest
        \/ /\ ingested = 0 /\ pc["s1"] = "idle"
           /\ \/ setQuotaBytes
              \/ scanLocalFolderPhotosOnly
              \/ scanPhoto

SpecLocal == InitAdmin /\ [][NextLocal]_vars

----------------------------------------------------------------------------
(* One album page with the selection of every pick recorded in picked. *)

(* The click of the timer with no test of the album and the role. *)
autoPick_atMount(s) ==
  /\ ~closed[s]
  /\ ~autoPicked[s]
  /\ autoPicked' = [autoPicked EXCEPT ![s] = TRUE]
  /\ UNCHANGED <<backend, albumId, render, local, picked, closed, admin, album,
                 myRole, msg, busy, prog, images, idx, doneBytes, doneFiles,
                 pc, outcome, runs, ingested, reservations, captured_at>>

(* The effect of a page opened with ?pick=1: once the album is loaded and
   the role is "write", a timer clicks the file input. *)
autoPick(s) ==
  /\ ~closed[s]
  /\ ~autoPicked[s]
  /\ album[s]
  /\ myRole[s] = "write"
  /\ autoPicked' = [autoPicked EXCEPT ![s] = TRUE]
  /\ UNCHANGED <<backend, albumId, render, local, picked, closed, admin, album,
                 myRole, msg, busy, prog, images, idx, doneBytes, doneFiles,
                 pc, outcome, runs, ingested, reservations, captured_at>>

NextPick ==
  \/ CloseOther
  \/ /\ closed["s2"]
     /\ \/ \E s \in Sessions, files \in Selections :
             /\ pick(s, files)
             /\ ingested' <= AdminIngest
             /\ picked' = [picked EXCEPT ![s] = files]
             /\ UNCHANGED autoPicked
        \/ \E s \in Sessions : autoPick(s)
        \/ /\ \A s \in Sessions : ~(pc[s] = "idle" /\ album[s])
           /\ Next

SpecPick == InitAdmin /\ [][NextPick]_vars

----------------------------------------------------------------------------
(* The renderers on their own: a bitmap of any size is decoded and one of
   the two functions sizes its canvas. *)

MaxDim == 6      \* sides 1..MaxDim, and sides this close to a multiple of a max side

DimValues ==
  (1..MaxDim) \cup
  {k * m + d : k \in 1..3, m \in {640, photoMaxSide}, d \in {-1, 0, 1}} \cup
  {MaxDim * 640, MaxDim * photoMaxSide}

MaxSides == (1..MaxDim) \cup {640, photoMaxSide}

InitDims ==
  /\ Init
  /\ albumId = [s \in Sessions |-> "x"]

PickDims ==
  /\ renderer = "none"
  /\ bmp = [width |-> 1, height |-> 1]
  /\ bmp' \in [width : DimValues, height : DimValues]
  /\ maxSide' \in MaxSides
  /\ renderer' = "decoded"
  /\ UNCHANGED canvas

makePreviewBlob ==
  /\ renderer = "decoded"
  /\ canvas' \in previewDims(bmp.width, bmp.height, maxSide)
  /\ renderer' = "makePreviewBlob"
  /\ UNCHANGED <<bmp, maxSide>>

makePhotoPreviewBlob ==
  /\ renderer = "decoded"
  /\ canvas' = photoPreviewDims(bmp.width, bmp.height)
  /\ renderer' = "makePhotoPreviewBlob"
  /\ UNCHANGED <<bmp, maxSide>>

NextDims ==
  /\ \/ PickDims
     \/ makePreviewBlob
     \/ makePhotoPreviewBlob
  /\ UNCHANGED <<backend, albumId, album, myRole, msg, busy, prog, images, idx,
                 doneBytes, doneFiles, pc, outcome, runs, ingested,
                 reservations, captured_at, closed, admin, local, picked,
                 autoPicked>>

SpecDims == InitDims /\ [][NextDims]_vars

----------------------------------------------------------------------------
Terminal == {"Skipped", "Cataloged", "Failed"}

Stages == {"idle", "hash", "lookup", "dims", "exif", "preview", "reserve",
           "upload", "getUser", "insert"}

TypeOK ==
  /\ used_bytes \in Nat
  /\ \A k \in Albums \X Shas : media_items[k] \in Nat
  /\ previews \subseteq Albums \X Shas
  /\ \A s \in Sessions :
       /\ pc[s] \in Stages
       /\ busy[s] = (pc[s] # "idle")
       /\ myRole[s] \in Role
       /\ \A i \in 1..Len(outcome[s]) : outcome[s][i] \in Terminal
       /\ Len(outcome[s]) <= Len(images[s])
       /\ busy[s] => idx[s] \in 1..Len(images[s])
       /\ captured_at[s] \in {"null", "iso"}
  /\ \A k \in Albums \X Shas :
       row_captured_at[k] \in {"none", "null", "iso"}

----------------------------------------------------------------------------
(* Vocabulary of the properties *)

Last(q) == q[Len(q)]

(* Page s has an item that reaches a terminal state in this step. *)
ItemEnds(s) == runs'[s] = runs[s] /\ Len(outcome'[s]) = Len(outcome[s]) + 1

(* No page is inside a run. *)
Quiescent == \A s \in Sessions : ~busy[s]

(* The items that have reached a terminal state, as <<page, position>>. *)
Ended == UNION {{<<s, i>> : i \in 1..Len(outcome[s])} : s \in Sessions}

EndedFor(a, x) ==
  {e \in Ended : albumId[e[1]] = a /\ images[e[1]][e[2]].sha = x}

EndedAs(a, x, o) == {e \in EndedFor(a, x) : outcome[e[1]][e[2]] = o}

RECURSIVE SumPreview(_)
SumPreview(K) ==
  IF K = {} THEN 0
  ELSE LET k == CHOOSE z \in K : TRUE IN PreviewSize(k[2]) + SumPreview(K \ {k})

Granted(d) == reservations[<<d, TRUE>>]
Denied(d)  == reservations[<<d, FALSE>>]

----------------------------------------------------------------------------
(* C1: used_bytes never exceeds limit_bytes, whatever the interleaving of
   the reserve_quota calls of the pages. *)
C1_UsedWithinLimit == used_bytes <= LimitBytes

(* A page holds a granted reservation while another page's call was denied
   on a full account. *)
C1_Witness ==
  \E s, t \in Sessions :
    /\ s # t
    /\ pc[s] \in {"upload", "getUser", "insert"}
    /\ msg[t] = "QuotaExceededError"
    /\ used_bytes > 0

(* C2: when all N reservation attempts so far had the same delta and the
   limit has room for only K < N of them, exactly K were granted and N - K
   were denied, and used_bytes is within the limit. *)
C2_ExactlyKGranted ==
  \A d \in Deltas :
    LET K == LimitBytes \div d
        N == Granted(d) + Denied(d)
    IN  ((\A e \in Deltas \ {d} : Granted(e) + Denied(e) = 0) /\ N > K)
          => (Granted(d) = K /\ Denied(d) = N - K /\ used_bytes <= LimitBytes)

(* Two attempts of one delta, room for one: one granted, one denied. *)
C2_Witness ==
  \E d \in Deltas :
    /\ \A e \in Deltas \ {d} : Granted(e) + Denied(e) = 0
    /\ LimitBytes \div d >= 1
    /\ Granted(d) = LimitBytes \div d
    /\ Denied(d) >= 1

(* C3: when an item's upload or catalog insert fails after its reservation
   was granted, the failing step gives the reserved bytes back. *)
C3_FailureReleases ==
  [][\A s \in Sessions :
       (/\ pc[s] \in {"upload", "insert"}
        /\ msg'[s] \in {"UploadError", "CatalogError"})
       => used_bytes' = used_bytes - PreviewSize(file(s).sha)]_vars

(* C4: a run is never aborted by an item error: when a run is over, every
   item of it has reached a terminal state. *)
C4_EveryItemEnds ==
  \A s \in Sessions :
    (runs[s] > 0 /\ ~busy[s]) => Len(outcome[s]) = Len(images[s])

(* C5: the catalog holds at most one row per (album, sha256), and an insert
   that meets an existing row is taken as "already present": no row is
   added, no error message is shown and the item is not Failed. *)
C5_ConflictIsNotAnError ==
  [][/\ \A k \in Albums \X Shas : media_items'[k] <= 1
     /\ \A s \in Sessions :
          (/\ pc[s] = "insert"
           /\ pc'[s] # "insert"
           /\ insert_conflict(media_items, key(s))
           /\ msg'[s] # "CatalogError")
          => (/\ media_items' = media_items
              /\ msg'[s] = "null"
              /\ Last(outcome'[s]) # "Failed")]_vars

(* C6: with no page inside a run, every page having run at most once and no
   item Failed, a content ingested twice into one album has one Cataloged
   and one Skipped outcome, and used_bytes is one rendition size for every
   (album, content) ingested. *)
C6_DedupConvergence ==
  (/\ Quiescent
   /\ \A s \in Sessions : runs[s] <= 1
   /\ \A e \in Ended : outcome[e[1]][e[2]] # "Failed")
  => /\ \A a \in Albums, x \in Shas :
          Cardinality(EndedFor(a, x)) = 2
            => (/\ Cardinality(EndedAs(a, x, "Cataloged")) = 1
                /\ Cardinality(EndedAs(a, x, "Skipped")) = 1)
     /\ used_bytes =
          SumPreview({k \in Albums \X Shas : EndedFor(k[1], k[2]) # {}})

(* One run over two files of the same content: Cataloged, then Skipped. *)
C6_Witness ==
  \E s \in Sessions :
    /\ Quiescent
    /\ \A t \in Sessions : runs[t] <= 1
    /\ Len(images[s]) = 2
    /\ images[s][1].sha = images[s][2].sha
    /\ outcome[s] = <<"Cataloged", "Skipped">>
    /\ used_bytes = PreviewSize(images[s][1].sha)

(* Another page has committed the content of page s's current item to the
   same album. *)
CommittedByOther(s) ==
  \E e \in Ended :
    /\ e[1] # s
    /\ albumId[e[1]] = albumId[s]
    /\ images[e[1]][e[2]].sha = file(s).sha
    /\ outcome[e[1]][e[2]] = "Cataloged"

(* C7: the page whose insert meets the row of a concurrent committer ends
   the item as Skipped, gives its reserved bytes back and goes on with the
   run. *)
C7_LoserSkipsAndReleases ==
  [][\A s \in Sessions :
       (/\ pc[s] = "insert"
        /\ pc'[s] # "insert"
        /\ CommittedByOther(s)
        /\ insert_conflict(media_items, key(s))
        /\ msg'[s] # "CatalogError")
       => (/\ ItemEnds(s)
           /\ Last(outcome'[s]) = "Skipped"
           /\ used_bytes' = used_bytes - PreviewSize(file(s).sha)
           /\ idx'[s] = idx[s] + 1)]_vars

(* C8: within a run files_done and bytes_done never decrease, and in the
   step that ends the run they equal files_seen and bytes_seen. *)
C8_ProgressReachesTotal ==
  [][\A s \in Sessions :
       runs'[s] = runs[s]
       => (/\ prog'[s].doneFiles >= prog[s].doneFiles
           /\ prog'[s].doneBytes >= prog[s].doneBytes
           /\ (busy[s] /\ ~busy'[s])
                => (/\ prog'[s].doneFiles = prog'[s].totalFiles
                    /\ prog'[s].doneBytes = prog'[s].totalBytes))]_vars

(* C9: the counters change exactly in the step in which an item reaches a
   terminal state (Skipped, Cataloged or Failed), by one file and by the
   item's original size. *)
C9_CountedOncePerItem ==
  [][\A s \in Sessions :
       runs'[s] = runs[s]
       => IF ItemEnds(s)
          THEN /\ prog'[s].doneFiles = prog[s].doneFiles + 1
               /\ prog'[s].doneBytes = prog[s].doneBytes + file(s).size
               /\ prog'[s].totalFiles = prog[s].totalFiles
               /\ prog'[s].totalBytes = prog[s].totalBytes
          ELSE prog'[s] = prog[s]]_vars

(* C10: the percentage is the integer nearest to 100 * bytes_done /
   bytes_seen (halves up) when bytes_seen > 0, and 0 when bytes_seen = 0. *)
C10_PercentIsRounded ==
  \A s \in Sessions :
    LET d == prog[s].doneBytes
        t == prog[s].totalBytes
        r == pct(prog[s])
    IN  IF t = 0 THEN r = 0
        ELSE 2 * t * r - t <= 200 * d /\ 200 * d < 2 * t * r + t

(* 3 of 8 bytes done: 37.5 is shown as 38. *)
C10_Witness ==
  \E s \in Sessions :
    /\ prog[s].totalBytes = 8
    /\ prog[s].doneBytes = 3
    /\ pct(prog[s]) = 38

(* A page whose single run, the only one so far, has ended with no item
   failed, over files of pairwise distinct content. *)
CleanRun(s) ==
  /\ runs[s] = 1
  /\ \A t \in Sessions \ {s} : runs[t] = 0
  /\ ~busy[s]
  /\ \A i \in 1..Len(outcome[s]) : outcome[s][i] # "Failed"
  /\ \A i, j \in 1..Len(images[s]) : i # j => images[s][i].sha # images[s][j].sha

RECURSIVE sumPreviewSize(_)
sumPreviewSize(fs) ==
  IF fs = <<>> THEN 0 ELSE PreviewSize(Head(fs).sha) + sumPreviewSize(Tail(fs))

(* C11: a run over files of pairwise distinct content into an empty
   collection, with no step failing, ends with every item Cataloged,
   used_bytes grown by exactly the sum of the rendition sizes (not of the
   file sizes), and progress at 100%. *)
C11_CleanRunCatalogsAll ==
  \A s \in Sessions :
    CleanRun(s) =>
      /\ Len(outcome[s]) = Len(images[s])
      /\ \A i \in 1..Len(outcome[s]) : outcome[s][i] = "Cataloged"
      /\ \A i \in 1..Len(images[s]) : media_items[<<albumId[s], images[s][i].sha>>] = 1
      /\ used_bytes = sumPreviewSize(images[s])
      /\ prog[s].doneFiles = prog[s].totalFiles
      /\ pct(prog[s]) = 100

(* Two files of 3 and 5 bytes cataloged; 2 + 1 rendition bytes charged. *)
C11_Witness ==
  \E s \in Sessions :
    /\ CleanRun(s)
    /\ images[s] = <<fileA, fileB>>
    /\ outcome[s] = <<"Cataloged", "Cataloged">>
    /\ used_bytes = 3
    /\ sumSize(images[s]) = 8

(* C12: an item whose dedup lookup reports its fingerprint present in the
   target collection ends Skipped: it is counted in doneFiles / doneBytes,
   no message is set, and nothing is reserved, uploaded or inserted, so
   used_bytes and the catalog are unchanged. *)
C12_PresentIsSkipped ==
  [][\A s \in Sessions :
       (pc[s] = "lookup" /\ ItemEnds(s)) =>
         /\ media_items[key(s)] >= 1
         /\ Last(outcome'[s]) = "Skipped"
         /\ prog'[s].doneFiles = prog[s].doneFiles + 1
         /\ prog'[s].doneBytes = prog[s].doneBytes + file(s).size
         /\ msg'[s] = msg[s]
         /\ msg[s] = "null"
         /\ UNCHANGED <<used_bytes, media_items, previews, reservations>>
         /\ pc'[s] \in {"hash", "idle"}]_vars

(* The second copy of a content was skipped after the first was cataloged:
   one row, one rendition charged, both copies counted. *)
C12_Witness ==
  \E s \in Sessions :
    /\ images[s] = <<fileA, fileA>>
    /\ outcome[s] = <<"Cataloged", "Skipped">>
    /\ media_items[<<albumId[s], "a">>] = 1
    /\ used_bytes = PreviewSize("a")
    /\ prog[s].doneFiles = 2
    /\ prog[s].doneBytes = 6
    /\ msg[s] = "null"

(* C13: an item whose reservation is denied because used + rendition size
   exceeds the limit ends Failed(QuotaExceededError), used_bytes is unchanged,
   nothing is uploaded or inserted for it, and the run goes on with the next
   item. *)
C13_QuotaFailureContinues ==
  [][\A s \in Sessions :
       (/\ pc[s] = "reserve"
        /\ ~reserve_quota_ok(used_bytes, delta_bytes(s))
        /\ msg'[s] = "QuotaExceededError")
       => (/\ Last(outcome'[s]) = "Failed"
           /\ UNCHANGED <<used_bytes, media_items, previews>>
           /\ idx[s] < Len(images[s]) =>
                 (pc'[s] = "hash" /\ idx'[s] = idx[s] + 1))]_vars

(* A failure of the metadata extraction: the parse throws, no capture tag
   is present, or the tag found is not a date. *)
MetadataFailure(ex) ==
  \/ ex.parse = "throws"
  \/ ex.parse = "undefined"
  \/ /\ ex.DateTimeOriginal = "absent"
     /\ ex.CreateDate = "absent"
     /\ ex.ModifyDate = "absent"
  \/ firstTag(ex) \in {"text", "invalidDate"}

(* Every failing parse result leaves captured_at null. *)
FailuresAreAbsent ==
  \A ex \in ExifResults : MetadataFailure(ex) => capturedAt(ex) = "null"

(* C14: a failure of the metadata extraction never fails the item: the
   capture timestamp is null for every failing parse result, the step after
   exifr.parse always leads to the rendition with no message and no outcome,
   and the row inserted for such an item records the timestamp as null. *)
C14_MetadataIsBestEffort ==
  [][/\ FailuresAreAbsent
     /\ \A s \in Sessions :
          (pc[s] = "exif" /\ pc'[s] # "exif") =>
            /\ pc'[s] = "preview"
            /\ busy'[s]
            /\ msg'[s] = msg[s]
            /\ outcome'[s] = outcome[s]
            /\ MetadataFailure(file(s).exif) => captured_at'[s] = "null"
     /\ \A s \in Sessions :
          (pc[s] = "insert" /\ ItemEnds(s) /\ Last(outcome'[s]) = "Cataloged"
             /\ MetadataFailure(file(s).exif))
          => row_captured_at'[key(s)] = "null"]_vars

(* A file whose EXIF parse throws has been cataloged with no capture
   timestamp, next to one cataloged with its timestamp. *)
C14_Witness ==
  \E s \in Sessions :
    /\ images[s] = <<fileA, fileB>>
    /\ outcome[s] = <<"Cataloged", "Cataloged">>
    /\ fileB.exif.parse = "throws"
    /\ row_captured_at[<<albumId[s], "b">>] = "null"
    /\ row_captured_at[<<albumId[s], "a">>] = "iso"

(* The max side the renderer that sized the canvas worked with. *)
RenderMax == IF renderer = "makePhotoPreviewBlob" THEN photoMaxSide ELSE maxSide

(* C15: for every source width and height >= 1 and max side M >= 1, the
   rendition's longer side is at most M, neither side is larger than the
   source's, and the dimensions equal the source's when its longer side is
   already at most M; for makePreviewBlob and for makePhotoPreviewBlob. *)
C15_RenditionBound ==
  renderer \in {"makePreviewBlob", "makePhotoPreviewBlob"} =>
    /\ Max(canvas.width, canvas.height) <= RenderMax
    /\ canvas.width <= bmp.width
    /\ canvas.height <= bmp.height
    /\ Max(bmp.width, bmp.height) <= RenderMax => canvas = bmp

(* A 1281 x 640 source rendered by makePreviewBlob at 640: 640 x 320. *)
C15_Witness ==
  /\ renderer = "makePreviewBlob"
  /\ maxSide = 640
  /\ bmp = [width |-> 1281, height |-> 640]
  /\ canvas = [width |-> 640, height |-> 320]

(* C16: within one page the items reach their terminal state in the order
   of enumeration: the item in a stage is always the first one without a
   terminal state, and the item that ends is that one. *)
C16_TerminalInOrder ==
  [][\A s \in Sessions :
       /\ busy[s] => idx[s] = Len(outcome[s]) + 1
       /\ busy'[s] => idx'[s] = Len(outcome'[s]) + 1
       /\ ItemEnds(s) => (pc[s] # "idle" /\ Len(outcome'[s]) = idx[s])
       /\ (busy[s] /\ busy'[s] /\ ~ItemEnds(s)) => idx'[s] = idx[s]]_vars

(* The second item is at its reservation after the first was cataloged. *)
C16_Witness ==
  \E s \in Sessions :
    /\ pc[s] = "reserve"
    /\ idx[s] = 2
    /\ outcome[s] = <<"Cataloged">>

ReadAccessMsg == "You only have read access."
NoImagesMsg   == "No images found in selected folder."

(* Page s returns from onPickFolder before the loop with a new message that
   is neither of the two rejections: the selection was empty. *)
EmptyPick(s) ==
  /\ pc[s] = "idle" /\ pc'[s] = "idle"
  /\ album[s]
  /\ msg'[s] # msg[s]
  /\ msg'[s] \notin {ReadAccessMsg, NoImagesMsg}

(* C17: a cancelled selection is an empty candidate set and not an error: no
   message is shown, no run starts, nothing is hashed, reserved, uploaded or
   inserted, and busy is false afterwards. *)
C17_CancelIsNotAnError ==
  [][\A s \in Sessions :
       EmptyPick(s) =>
         /\ msg'[s] = "null"
         /\ ~busy'[s]
         /\ runs' = runs
         /\ UNCHANGED <<used_bytes, media_items, previews, reservations>>
         /\ UNCHANGED <<prog, images, idx, outcome>>]_vars

(* A page whose last run ended with a failure shows no message any more:
   an empty selection came after the run. *)
C17_Witness ==
  \E s \in Sessions :
    /\ ~busy[s]
    /\ runs[s] = 1
    /\ outcome[s] = <<"Failed">>
    /\ msg[s] = "null"

(* The rows of the catalog. *)
Committed == {k \in Albums \X Shas : media_items[k] >= 1}

(* C18: at the end of a run every granted reservation was followed by the
   catalog commit of its item or was released; in particular when the run
   ended because the user lookup returned no user after the reservation and
   the upload: the bytes in use are those of the cataloged renditions. *)
C18_ReservedIsCommittedOrReleased ==
  (Quiescent /\ \A s \in Sessions : runs[s] = 0 \/ msg[s] = "No user")
    => used_bytes = SumPreview(Committed)

(* The stages of an item in the order of the loop body. *)
StageOrder == <<"hash", "lookup", "dims", "exif", "preview", "reserve",
                "upload", "getUser", "insert">>

StagePos(l) == CHOOSE i \in 1..Len(StageOrder) : StageOrder[i] = l

(* Page s moves its current item from one stage to another. *)
StageStep(s) ==
  /\ busy[s] /\ busy'[s]
  /\ ~ItemEnds(s)
  /\ pc'[s] # pc[s]

(* C19: the stages of an item run in the order hash, dedup lookup,
   dimensions, metadata, rendition, reservation, upload, user, insert; the
   upload is entered only by a granted reservation, the insert only with
   the rendition stored, the reservation only from the rendition, and
   after the item's terminal state the page is idle or at the hash of the
   next item. *)
C19_StagesInOrder ==
  [][\A s \in Sessions :
       /\ StageStep(s) =>
            /\ idx'[s] = idx[s]
            /\ StagePos(pc'[s]) = StagePos(pc[s]) + 1
       /\ (StageStep(s) /\ pc'[s] = "upload") =>
            /\ reserve_quota_ok(used_bytes, delta_bytes(s))
            /\ used_bytes' = used_bytes + delta_bytes(s)
       /\ (StageStep(s) /\ pc'[s] = "reserve") => pc[s] = "preview"
       /\ pc'[s] \in {"getUser", "insert"} => key(s)' \in previews'
       /\ ItemEnds(s) =>
            \/ pc'[s] = "idle"
            \/ pc'[s] = "hash" /\ idx'[s] = idx[s] + 1]_vars

(* An item is at its catalog insert with its reservation granted and its
   rendition stored. *)
C19_Witness ==
  \E s \in Sessions :
    /\ pc[s] = "insert"
    /\ key(s) \in previews
    /\ Granted(delta_bytes(s)) >= 1
    /\ used_bytes >= delta_bytes(s)

(* C20: a page closed between the reservation of an item and its catalog
   insert does not leave the reservation uncompensated.  A closed page takes
   no further step, so the state it is closed in is final: it must not
   hold a granted reservation whose item is not in the catalog. *)
C20_ClosedIsCompensated ==
  \A s \in Sessions :
    (closed[s] /\ pc[s] \in {"upload", "getUser", "insert"})
      => used_bytes = SumPreview(Committed)

(* C21: used_bytes changes only by a granted reservation (+delta of the
   item at its reserve step) or by a release of the delta of an item that
   holds a reservation; hash, lookup, metadata, rendition, upload, insert,
   progress, album creation, sharing and revoking leave it unchanged. *)
C21_OnlyReserveChangesUsed ==
  [][used_bytes' # used_bytes =>
       \E s \in Sessions :
         \/ /\ pc[s] = "reserve"
            /\ pc'[s] = "upload"
            /\ reserve_quota_ok(used_bytes, delta_bytes(s))
            /\ used_bytes' = used_bytes + delta_bytes(s)
         \/ /\ pc[s] \in {"upload", "getUser", "insert"}
            /\ used_bytes' = used_bytes - delta_bytes(s)]_vars

(* An album was created and a member was added; the one granted
   reservation of 2 bytes is all that used_bytes shows. *)
C21_Witness ==
  /\ albums = {"Goa"}
  /\ album_members = {<<"x", "u2">>}
  /\ members["s1"] = {"u2"}
  /\ used_bytes = 2
  /\ Granted(2) = 1

----------------------------------------------------------------------------
(* Page s starts to move the bytes of its current item. *)
Admits(s) == pc[s] # "upload" /\ pc'[s] = "upload"

(* Page s refuses its current item for want of quota. *)
Refuses(s) == pc[s] # "idle" /\ pc'[s] = "idle" /\ msg'[s] = "QuotaExceededError"

(* The local scan refuses the folder for want of quota, or starts on it. *)
ScanRefuses == ~scanRunning /\ alerted # alerted' /\ alerted' = "Quota exceeded."
ScanAdmits  == ~scanRunning /\ scanRunning'

(* Page s is at its call of reserve_quota and leaves it. *)
ReserveStep(s) == pc[s] = "reserve" /\ pc'[s] # "reserve"

(* C22: no ingestion path decides about the quota by itself: every step
   that refuses for want of quota, or goes on to process the picked bytes,
   is the return of a reserve_quota call. *)
C22_NoLocalDecision ==
  [][((\E s \in Sessions : Admits(s) \/ Refuses(s)) \/ ScanRefuses \/ ScanAdmits)
       => \E s \in Sessions : ReserveStep(s)]_vars

(* C22 as it holds: on the album page an item is admitted only by a
   granted reserve_quota call and refused for quota only by a denied one,
   both recorded by the backend; the local scan does compare the folder's
   bytes with the quota it holds, and its steps leave the backend and the
   page alone. *)
C22_PageDecidesByReserve ==
  [][/\ \A s \in Sessions :
          /\ Admits(s) =>
                /\ ReserveStep(s)
                /\ reserve_quota_ok(used_bytes, delta_bytes(s))
                /\ reservations'[<<delta_bytes(s), TRUE>>] =
                     reservations[<<delta_bytes(s), TRUE>>] + 1
          /\ Refuses(s) =>
                /\ ReserveStep(s)
                /\ ~reserve_quota_ok(used_bytes, delta_bytes(s))
                /\ reservations'[<<delta_bytes(s), FALSE>>] =
                     reservations[<<delta_bytes(s), FALSE>>] + 1
     /\ (ScanRefuses \/ ScanAdmits \/ local' # local) =>
          /\ UNCHANGED <<backend, reservations, pc, msg, prog>>
          /\ ScanRefuses =>
                \E photos \in ScanPhotoLists : sumSize(photos) > quotaBytes]_vars

(* The scan has scanned one folder and then refused another against the
   quota it holds, with no reservation asked for either. *)
C22_Witness ==
  /\ alerted = "Quota exceeded."
  /\ localAlbum.itemsScanned = 1
  /\ localAlbum.originalBytes <= quotaBytes
  /\ used_bytes = 0
  /\ \A d \in Deltas : Granted(d) = 0 /\ Denied(d) = 0

----------------------------------------------------------------------------
(* An entry with a declared content type image/... or a name ending in a
   known raster extension. *)
IsRaster(f) ==
  \/ f.type[1] = "image"
  \/ f.ext \in {"jpg", "jpeg", "png", "webp", "tif", "tiff", "heic", "heif"}

(* The candidate sequence of a selection. *)
Candidates(fs) == SelectSeq(fs, IsRaster)

(* The latest pick of page s went past the role test and found images. *)
StartedRun(s) ==
  myRole[s] = "write" /\ Candidates(picked[s]) # <<>>

(* C23: the entries of a selection that are not images are left out of the
   run: files_seen and bytes_seen count the images only, the stages work on
   images only, there is one outcome per image at most, and a message
   after the run stands for a Failed image; a selection of entries that
   are not images starts no stage at all. *)
C23_NonImagesExcluded ==
  \A s \in Sessions :
    LET cand == Candidates(picked[s]) IN
    /\ StartedRun(s) =>
         /\ images[s] = cand
         /\ prog[s].totalFiles = Len(cand)
         /\ prog[s].totalBytes = sumSize(cand)
         /\ prog[s].doneFiles <= Len(cand)
         /\ Len(outcome[s]) <= Len(cand)
         /\ busy[s] => IsRaster(file(s))
         /\ (~busy[s] /\ msg[s] # "null") =>
              (outcome[s] # <<>> /\ Last(outcome[s]) = "Failed")
    /\ (picked[s] # <<>> /\ cand = <<>>) =>
         /\ ~busy[s]
         /\ pc[s] = "idle"
         /\ msg[s] \in {"You only have read access.",
                        "No images found in selected folder."}

(* A selection of an image and a text file has run to its end: one file
   seen, one Cataloged, no message. *)
C23_Witness ==
  \E s \in Sessions :
    /\ Len(picked[s]) = 2
    /\ \E i \in 1..2 : ~IsRaster(picked[s][i])
    /\ prog[s].totalFiles = 1
    /\ prog[s].doneFiles = 1
    /\ outcome[s] = <<"Cataloged">>
    /\ msg[s] = "null"
    /\ ~busy[s]

----------------------------------------------------------------------------
(* An item of page s throws in this step. *)
Throws(s) == ItemEnds(s) /\ Last(outcome'[s]) = "Failed"

(* The latest run of page s has met an exception. *)
Aborted(s) == outcome[s] # <<>> /\ Last(outcome[s]) = "Failed"

(* C24: the first exception of an item ends the run: the step records the
   error message and nothing else (the counters and the position keep the
   values they had before the failing item, the page is idle again), and
   from then on no stage runs for the items after the failing one until a
   new pick. *)
C24_FirstExceptionAborts ==
  [][\A s \in Sessions :
       /\ Throws(s) =>
            /\ pc[s] \in {"hash", "dims", "preview", "reserve", "upload",
                          "getUser", "insert"}
            /\ pc'[s] = "idle"
            /\ ~busy'[s]
            /\ msg'[s] # "null"
            /\ prog'[s] = prog[s]
            /\ prog'[s].doneFiles = idx[s] - 1
            /\ idx'[s] = idx[s]
            /\ images'[s] = images[s]
            /\ Len(outcome'[s]) = idx[s]
            /\ UNCHANGED backend
       /\ (Aborted(s) /\ runs'[s] = runs[s]) =>
            /\ pc[s] = "idle"
            /\ pc'[s] = "idle"
            /\ outcome'[s] = outcome[s]
            /\ prog'[s] = prog[s]]_vars

(* The first of two images has failed: the run is over with nothing
   counted and the second image untouched. *)
C24_Witness ==
  \E s \in Sessions :
    /\ Len(images[s]) = 2
    /\ outcome[s] = <<"Failed">>
    /\ pc[s] = "idle"
    /\ ~busy[s]
    /\ msg[s] # "null"
    /\ prog[s].doneFiles = 0
    /\ prog[s].totalFiles = 2

----------------------------------------------------------------------------
(* C25: on every page the counters shown stay between 0 and the totals of
   the run, the loop's own counters too, and the percentage shown is an
   integer from 0 to 100. *)
C25_CountersWithinTotals ==
  \A s \in Sessions :
    /\ prog[s].doneFiles \in 0..prog[s].totalFiles
    /\ prog[s].doneBytes \in 0..prog[s].totalBytes
    /\ doneFiles[s] \in 0..prog[s].totalFiles
    /\ doneBytes[s] \in 0..prog[s].totalBytes
    /\ pct(prog[s]) \in 0..100

(* A run of two images with the first one counted: 3 of 8 bytes, 38 %. *)
C25_Witness ==
  \E s \in Sessions :
    /\ busy[s]
    /\ prog[s].totalFiles = 2
    /\ prog[s].doneFiles = 1
    /\ prog[s].doneBytes > 0
    /\ prog[s].doneBytes < prog[s].totalBytes
    /\ pct(prog[s]) \in 1..99

----------------------------------------------------------------------------
(* Page s starts a run in this step. *)
RunStarts(s) == runs'[s] = runs[s] + 1

(* The run of page s ends in this step. *)
RunEnds(s) == pc[s] # "idle" /\ pc'[s] = "idle"

(* C26: a page has one run in flight at most: a run starts only on a page
   that is not busy; busy is set by the start of a run and by nothing
   else, stays set at every stage of the loop, and is cleared by the step
   that ends the run, by the end of the list or by an exception. *)
C26_OneRunAtATime ==
  [][\A s \in Sessions :
       /\ RunStarts(s) => (~busy[s] /\ pc[s] = "idle" /\ busy'[s])
       /\ (~busy[s] /\ busy'[s]) => RunStarts(s)
       /\ busy[s] <=> pc[s] # "idle"
       /\ busy'[s] <=> pc'[s] # "idle"
       /\ RunEnds(s) => ~busy'[s]
       /\ (busy[s] /\ ~busy'[s]) => RunEnds(s)]_vars

(* The second run of a page has ended by an exception and the page is not
   busy: the first one had to end before the second could start. *)
C26_Witness ==
  \E s \in Sessions :
    /\ runs[s] = 2
    /\ Aborted(s)
    /\ pc[s] = "idle"
    /\ ~busy[s]

----------------------------------------------------------------------------
(* C27: on a page whose role is not "write" a step of the page is a pick,
   and it starts nothing: no stage, no call that writes to the backend, the
   counters and busy as they were; a selection that is not empty leaves
   the read-access message.  The timer of ?pick=1 clicks the file input
   only on a page with the album loaded and the role "write". *)
C27_ReaderPickDoesNothing ==
  [][\A s \in Sessions :
       /\ (~closed[s] /\ album[s] /\ myRole[s] # "write") =>
            /\ pc[s] = "idle" /\ pc'[s] = "idle"
            /\ busy'[s] = busy[s]
            /\ prog'[s] = prog[s]
            /\ runs'[s] = 0
            /\ outcome'[s] = <<>>
            /\ UNCHANGED <<backend, reservations, ingested>>
            /\ msg'[s] = IF picked'[s] = <<>> THEN "null" ELSE ReadAccessMsg
            /\ ~autoPicked'[s]
       /\ autoPicked'[s] => (album'[s] /\ myRole'[s] = "write")]_vars

(* A reader has picked a folder with an image in it: the message and
   nothing else. *)
C27_Witness ==
  \E s \in Sessions :
    /\ myRole[s] = "read"
    /\ Candidates(picked[s]) # <<>>
    /\ msg[s] = ReadAccessMsg
    /\ ~busy[s]
    /\ prog[s].totalFiles = 0
    /\ used_bytes = 0
    /\ \A k \in Albums \X Shas : media_items[k] = 0

----------------------------------------------------------------------------
(* C28: the dedup lookup ends in one of two ways only.  With a row
   returned the item is Skipped; otherwise, the lookup having found
   nothing or having failed, the item goes on to the rendition with no
   outcome and no message recorded.  After the lookup the item is never
   Skipped: a row that is there is met by the insert alone, which adds no
   second row. *)
C28_FailedLookupIsAbsent ==
  [][\A s \in Sessions :
       /\ (pc[s] = "lookup" /\ pc'[s] # "lookup") =>
            IF pc'[s] = "dims"
            THEN /\ outcome'[s] = outcome[s]
                 /\ msg'[s] = msg[s]
                 /\ prog'[s] = prog[s]
                 /\ idx'[s] = idx[s]
                 /\ UNCHANGED <<backend, reservations>>
            ELSE /\ exists(s)
                 /\ ItemEnds(s)
                 /\ Last(outcome'[s]) = "Skipped"
       /\ (pc[s] \in {"dims", "exif", "preview", "reserve", "upload",
                      "getUser", "insert"} /\ ItemEnds(s)) =>
            Last(outcome'[s]) # "Skipped"
       /\ (pc[s] = "insert" /\ pc'[s] # "insert"
             /\ insert_conflict(media_items, key(s))) =>
            /\ media_items' = media_items
            /\ Throws(s)
       /\ \A k \in Albums \X Shas : media_items'[k] <= 1]_vars

(* The only page that has run took two files of one content: the first is
   Cataloged; the lookup of the second failed, so it was rendered, reserved
   and uploaded, and its insert met the row of the first. *)
C28_Witness ==
  \E s \in Sessions :
    /\ \A t \in Sessions \ {s} : runs[t] = 0
    /\ runs[s] = 1
    /\ Len(images[s]) = 2
    /\ images[s][1].sha = images[s][2].sha
    /\ outcome[s] = <<"Cataloged", "Failed">>
    /\ msg[s] = "CatalogConflict"
    /\ media_items[key(s)] = 1
    /\ Granted(PreviewSize(images[s][1].sha)) = 2
====
